---- MODULE Spec2Model ----
(***************************************************************************)
(* Model of uncertainpy's RunModel (src/src/uncertainpy/runmodel.py): the  *)
(* run scheduler that evaluates a model on every node of a quadrature grid *)
(* through a multiprocessing pool and aligns the per-node results in the   *)
(* Data store.                                                             *)
(***************************************************************************)
EXTENDS Integers, Sequences, FiniteSets, TLC

VARIABLES
    self,       \* the RunModel fields set by __init__ (model, features, CPUs, ...)
    data,       \* self.data, the Data store (features_0d/1d/2d, U, t)
    pc,         \* where RunModel.run is: idle, dispatching, collecting, aligning, done, failed
    nodes,      \* the grid handed to run, one node per element
    tasks,      \* the task list built by evaluateNodeFunctionList
    next_task,  \* index of the next task pool.imap hands to a worker
    running,    \* indices of the tasks the pool's workers are evaluating
    cache,      \* results of finished tasks the imap iterator has not yet yielded
    solves,     \* evaluateNodes' list of collected results
    vdisplay,   \* evaluateNodes' Xvfb display: none, running, stopped
    error,      \* the exception run ended with, "" when none
    allow_incomplete,  \* UncertaintyEstimation(allow_incomplete=...), the caller's tolerance
    calls,      \* how many more times the caller will call run
    kept,       \* the caller's hold on the stores run returned to it
    parameters, \* a Parameters object: self.parameters, an OrderedDict (keys in order, val)
    last        \* the last operation on the Parameters object: op, args, result, raised

\* The variables of the RunModel and its caller, and those of the Parameters object.
rvars == <<self, data, pc, nodes, tasks, next_task, running, cache, solves, vdisplay, error,
           allow_incomplete, calls, kept>>
pvars == <<parameters, last>>
vars == <<rvars, pvars>>

\* ------------------------------------------------------------------ bounds
MaxNodes == 3       \* longest grid
MaxCPUs == 2        \* largest pool
MaxVal == 1         \* node values are 0..MaxVal
MaxRuns == 2        \* runs on one RunModel, where several are made
BaseLen == 2        \* length of the model's time axis at node value 0

NodeValues == 0..MaxVal
Grids == UNION {[1..n -> NodeValues] : n \in 1..MaxNodes}

directComparison == "directComparison"

\* ------------------------------------------------------------- numpy values
None == [kind |-> "None", shape |-> <<>>, v |-> <<>>]
ndarray(shape, v) == [kind |-> "ndarray", shape |-> shape, v |-> v]
scalar(x) == ndarray(<<>>, <<x>>)
arange(n) == [k \in 1..n |-> k - 1]
Min(S) == CHOOSE x \in S : \A y \in S : x <= y

\* np.argmax: the first index holding the maximum
argmax(lengths) ==
    Min({i \in 1..Len(lengths) : \A j \in 1..Len(lengths) : lengths[j] <= lengths[i]})

\* ------------------------------------------------------ models and features
\* The models of tests/testing_classes: 0-D, 1-D, 2-D output; the length of the
\* output either fixed (TestingModel1d) or growing with the node (TestingModelAdaptive).
Length(model, node) == IF model.varying THEN BaseLen + node ELSE BaseLen

Output(ndim, n, node) ==
    CASE ndim = 0 -> <<scalar(1), scalar(node)>>
      [] ndim = 1 -> <<ndarray(<<n>>, arange(n)), ndarray(<<n>>, [k \in 1..n |-> k - 1 + node])>>
      [] ndim = 2 -> <<ndarray(<<n>>, arange(n)),
                       ndarray(<<2, n>>, [k \in 1..(2 * n) |-> ((k - 1) % n) + node])>>

model_run(model, node) == Output(model.ndim, Length(model, node), node)

\* The interpolant the worker attaches to an adaptive model's result, and its
\* evaluation on a time axis: one value per point of the axis.
Interpolant(node) == [kind |-> "spline", shape |-> <<>>, v |-> <<node>>]
Evaluate(inter, t) == ndarray(t.shape, [k \in 1..Len(t.v) |-> t.v[k] + inter.v[1]])

\* One worker invocation on one task: the per-feature mapping of the node, as a
\* dict (keys in iteration order, val), or the exception the model raised.
evaluateNodeFunction(task) ==
    LET model == task.model
        node == task.node
        n == Length(model, node)
        direct == IF task.adaptive_model
                  THEN Append(model_run(model, node), Interpolant(node))
                  ELSE model_run(model, node)
    IN  IF model.fault = "raise" /\ node = MaxVal
        THEN [raised |-> TRUE, keys |-> <<>>, val |-> <<>>]
        ELSE IF model.fault = "lack" /\ node = MaxVal
        THEN [raised |-> FALSE, keys |-> <<>>, val |-> <<>>]
        ELSE [raised |-> FALSE,
              keys |-> task.features.order,
              val |-> [f \in {task.features.order[k] : k \in DOMAIN task.features.order} |->
                          IF f = directComparison THEN direct
                          ELSE Output(task.features.ndim, n, node)]]

\* ------------------------------------------------------------ the Data store
\* Data(): empty feature lists, empty U and t.
EmptyData == [features_0d |-> <<>>, features_1d |-> <<>>, features_2d |-> <<>>,
              U |-> <<>>, t |-> <<>>]

\* Data.resetValues: clears the store.
resetValues(d) == EmptyData

\* Data.setFeatures: classifies the features of one node's result by the rank
\* of their values, in the result's iteration order.
setFeatures(d, results) ==
    LET ofRank(r) == SelectSeq(results.keys, LAMBDA f : Len(results.val[f][2].shape) = r)
    IN  [d EXCEPT !.features_0d = ofRank(0),
                  !.features_1d = ofRank(1),
                  !.features_2d = ofRank(2)]

\* isAdaptiveError: for a non-adaptive model, compares the shapes of the values
\* held in self.data.U for every 1-D and 2-D feature. Returns the exception
\* raised, "" when none.
RECURSIVE isAdaptiveErrorLoop(_, _)
isAdaptiveErrorLoop(d, feats) ==
    IF feats = <<>> THEN ""
    ELSE LET feature == Head(feats) IN
         IF feature \notin DOMAIN d.U THEN "KeyError"
         ELSE IF d.U[feature].items = <<>> THEN "IndexError"
         ELSE IF \E i \in 1..(Len(d.U[feature].items) - 1) :
                    d.U[feature].items[i].shape # d.U[feature].items[i + 1].shape
         THEN "ValueError"
         ELSE isAdaptiveErrorLoop(d, Tail(feats))

isAdaptiveError(adaptive_model, d) ==
    IF ~adaptive_model
    THEN isAdaptiveErrorLoop(d, d.features_1d \o d.features_2d)
    ELSE ""

\* performInterpolation taking the first node's time axis instead of the longest.
performInterpolationFirst(ts, interpolation) ==
    LET t == ts[1]
        interpolated_solves == [i \in 1..Len(interpolation) |-> Evaluate(interpolation[i], t)]
    IN  <<t, [array |-> TRUE, items |-> interpolated_solves]>>

\* performInterpolation: the time axis of the first longest node, and every
\* node's interpolant evaluated on it, as an array.
performInterpolation(ts, interpolation) ==
    LET lengths == [i \in 1..Len(ts) |-> ts[i].shape[1]]
        index_max_len == argmax(lengths)
        t == ts[index_max_len]
        interpolated_solves == [i \in 1..Len(interpolation) |-> Evaluate(interpolation[i], t)]
    IN  <<t, [array |-> TRUE, items |-> interpolated_solves]>>

\* Nodes whose result has no entry for the feature: solved[feature] raises KeyError.
Lacking(slv, feature) == {i \in 1..Len(slv) : feature \notin DOMAIN slv[i].val}

\* storeRaw looping over solves[1:], so that the first node's values are not stored.
storeRawTail(st, slv, feature, tval) ==
    LET lack == Lacking(slv, feature)
        n == IF lack = {} THEN Len(slv) ELSE Min(lack) - 1
        items == [i \in 1..(n - 1) |-> slv[i + 1].val[feature][2]]
    IN  [data |-> [st.data EXCEPT !.t = (feature :> tval) @@ @,
                                  !.U = (feature :> [array |-> FALSE, items |-> items]) @@ @],
         error |-> IF lack = {} THEN "" ELSE "KeyError",
         feature |-> feature]

\* self.data.t[feature] = tval; self.data.U[feature] = [];
\* for solved in solves: self.data.U[feature].append(solved[feature][1])
\* st is the state of storeResults: the store, the exception raised ("" when
\* none) and the loop variable `feature` ("" while unbound).
storeRaw(st, slv, feature, tval) ==
    LET lack == Lacking(slv, feature)
        n == IF lack = {} THEN Len(slv) ELSE Min(lack) - 1
        items == [i \in 1..n |-> slv[i].val[feature][2]]
    IN  [data |-> [st.data EXCEPT !.t = (feature :> tval) @@ @,
                                  !.U = (feature :> [array |-> FALSE, items |-> items]) @@ @],
         error |-> IF lack = {} THEN "" ELSE "KeyError",
         feature |-> feature]

\* store2d without the test for the adaptive directComparison.
store2dUnchecked(st, slv, adaptive_model, feature) ==
    storeRaw(st, slv, feature, slv[1].val[feature][1])

\* Body of the loop over features_2d.
store2d(st, slv, adaptive_model, feature) ==
    IF adaptive_model /\ feature = directComparison
    THEN [st EXCEPT !.error = "NotImplementedError", !.feature = feature]
    ELSE storeRaw(st, slv, feature, slv[1].val[feature][1])

\* Body of the loop over features_1d.
store1d(st, slv, adaptive_model, feature) ==
    IF adaptive_model /\ feature = directComparison
    THEN IF Lacking(slv, feature) # {}
         THEN [st EXCEPT !.error = "KeyError", !.feature = feature]
         ELSE LET ts == [i \in 1..Len(slv) |-> slv[i].val[feature][1]]
                  interpolation == [i \in 1..Len(slv) |-> slv[i].val[feature][3]]
                  tU == performInterpolation(ts, interpolation)
              IN  [data |-> [st.data EXCEPT !.t = (feature :> tU[1]) @@ @,
                                            !.U = (feature :> tU[2]) @@ @],
                   error |-> "",
                   feature |-> feature]
    ELSE storeRaw(st, slv, feature, slv[1].val[feature][1])

\* The loop over features_0d with the time of the first result kept, as the
\* loop over features_1d keeps it.
store0dTimed(st, slv, adaptive_model, feature) ==
    storeRaw(st, slv, feature, slv[1].val[feature][1])

\* Body of the loop over features_0d.
store0d(st, slv, adaptive_model, feature) == storeRaw(st, slv, feature, None)

storeBody(st, slv, adaptive_model, feature, rank) ==
    CASE rank = 2 -> store2d(st, slv, adaptive_model, feature)
      [] rank = 1 -> store1d(st, slv, adaptive_model, feature)
      [] rank = 0 -> store0d(st, slv, adaptive_model, feature)

\* One `for feature in ...` loop of storeResults; an exception ends it.
RECURSIVE storeLoop(_, _, _, _, _)
storeLoop(st, slv, adaptive_model, feats, rank) ==
    IF st.error # "" \/ feats = <<>> THEN st
    ELSE storeLoop(storeBody(st, slv, adaptive_model, Head(feats), rank),
                   slv, adaptive_model, Tail(feats), rank)

\* self.data.U[feature] = np.array(self.data.U[feature]) after the loops, with
\* `feature` what the last loop left it.
toArray(st) ==
    IF st.error # "" THEN st
    ELSE IF st.feature = "" THEN [st EXCEPT !.error = "NameError"]
    ELSE [st EXCEPT !.data.U[st.feature].array = TRUE]

\* storeResults(solves) on store d: the store it leaves and the exception raised.
storeResults(d, slv, adaptive_model) ==
    LET d1 == setFeatures(d, slv[1])
        e1 == isAdaptiveError(adaptive_model, d1)
        s2 == storeLoop([data |-> d1, error |-> "", feature |-> ""],
                        slv, adaptive_model, d1.features_2d, 2)
        s1 == storeLoop(s2, slv, adaptive_model, d1.features_1d, 1)
        s0 == storeLoop(s1, slv, adaptive_model, d1.features_0d, 0)
    IN  IF e1 # "" THEN [data |-> d1, error |-> e1, feature |-> ""]
        ELSE toArray(s0)

\* The messages of the exceptions storeResults and isAdaptiveError raise: the
\* text as written and the values formatted into it.
ErrorMessage(exception) ==
    CASE exception = "NotImplementedError" ->
            [text |-> "Support for >= 2d interpolation is not yet implemented",
             values |-> <<>>]
      [] exception = "ValueError" ->
            [text |-> "The number of simulation points varies between simulations. Try setting adaptive_model=True in model()",
             values |-> <<>>]

\* ------------------------------------------------- Parameter and Parameters
MaxParams == 2      \* longest parameterlist handed to Parameters

Names == {"a", "b"}
Values == {"1", "2"}
Attributes == {"name", "value", "distribution"}

\* What a caller can hand over as a distribution: a cp.Dist instance, a
\* function (by what it returns when called), any other object.
Dist(x) == [kind |-> "Dist", shape |-> <<>>, v |-> <<x>>]
Object(x) == [kind |-> "object", shape |-> <<>>, v |-> <<x>>]
Function(returns) == [kind |-> "function", shape |-> <<>>, v |-> <<returns>>]
Distributions == {None, Dist("U"), Function("Dist"), Function("object"), Object("3")}

\* new_distribution(self.value): the function's return value.
Call(new_distribution, value) ==
    IF new_distribution.v[1] = "Dist" THEN Dist(value) ELSE Object(value)

\* Parameter.distribution's setter on parameter p: the parameter afterwards
\* and the exception raised, "" when none.
distribution(p, new_distribution) ==
    IF new_distribution = None
    THEN [parameter |-> [p EXCEPT !.distribution = None], raised |-> ""]
    ELSE IF new_distribution.kind = "Dist"
    THEN [parameter |-> [p EXCEPT !.distribution = new_distribution], raised |-> ""]
    ELSE IF new_distribution.kind = "function"
    THEN LET returned == Call(new_distribution, p.value)
         IN  [parameter |-> [p EXCEPT !.distribution = returned],
              raised |-> IF returned.kind # "Dist" THEN "TypeError" ELSE ""]
    ELSE [parameter |-> p, raised |-> "TypeError"]

\* Parameter(name, value, distribution)
Parameter(name, value, new_distribution) ==
    distribution([name |-> name, value |-> value, distribution |-> None], new_distribution)

\* The Parameter objects a caller can construct.
ParameterObjects ==
    {Parameter(n, v, d).parameter : n \in Names, v \in Values,
        d \in {x \in Distributions : Parameter("a", "1", x).raised = ""}}

\* collections.OrderedDict: the keys in insertion order and the value of each.
OrderedDict == [keys |-> <<>>, val |-> <<>>]

\* d[key] = value: a new key goes last, a key already held keeps its place.
OrderedDict_setitem(d, key, value) ==
    IF key \in DOMAIN d.val
    THEN [d EXCEPT !.val[key] = value]
    ELSE [keys |-> Append(d.keys, key), val |-> (key :> value) @@ d.val]

\* del d[key]
OrderedDict_delitem(d, key) ==
    [keys |-> SelectSeq(d.keys, LAMBDA k : k # key),
     val |-> [k \in DOMAIN d.val \ {key} |-> d.val[k]]]

\* d.values(): the values in key order.
OrderedDict_values(d) == [k \in 1..Len(d.keys) |-> d.val[d.keys[k]]]

\* The entries of a parameterlist: a Parameter object, a list or a string of
\* some items, an object that has no items (an integer).
Entry(kind, items) == [kind |-> kind, items |-> items]
Entries ==
    {Entry("Parameter", <<p>>) : p \in ParameterObjects}
    \cup {Entry("list", <<n, v, d>>) : n \in Names, v \in Values, d \in Distributions}
    \cup {Entry("list", <<"a">>), Entry("str", <<"a", "b">>), Entry("int", <<>>)}
ParameterLists == UNION {[1..n -> Entries] : n \in 0..MaxParams}

\* The loop body with a list entry whose name is already held left out.
InitEntryKeepFirst(d, i) ==
    IF i.kind = "Parameter"
    THEN [parameters |-> OrderedDict_setitem(d, i.items[1].name, i.items[1]), raised |-> ""]
    ELSE IF i.kind = "int" \/ Len(i.items) \notin {2, 3}
    THEN [parameters |-> d, raised |-> "TypeError"]
    ELSE LET new == Parameter(i.items[1], i.items[2],
                              IF Len(i.items) = 3 THEN i.items[3] ELSE None)
         IN  IF new.raised # ""
             THEN [parameters |-> d, raised |-> new.raised]
             ELSE IF i.items[1] \in DOMAIN d.val
             THEN [parameters |-> d, raised |-> ""]
             ELSE [parameters |-> OrderedDict_setitem(d, i.items[1], new.parameter),
                   raised |-> ""]

\* One pass of the loop of Parameters.__init__ over entry i: the dictionary
\* afterwards and the exception raised.
InitEntry(d, i) ==
    IF i.kind = "Parameter"
    THEN [parameters |-> OrderedDict_setitem(d, i.items[1].name, i.items[1]), raised |-> ""]
    ELSE IF i.kind = "int" \/ Len(i.items) \notin {2, 3}
    THEN [parameters |-> d, raised |-> "TypeError"]
    ELSE LET new == Parameter(i.items[1], i.items[2],
                              IF Len(i.items) = 3 THEN i.items[3] ELSE None)
         IN  IF new.raised # ""
             THEN [parameters |-> d, raised |-> new.raised]
             ELSE [parameters |-> OrderedDict_setitem(d, i.items[1], new.parameter), raised |-> ""]

RECURSIVE InitLoop(_, _, _)
InitLoop(d, parameterlist, k) ==
    IF k > Len(parameterlist)
    THEN [parameters |-> d, raised |-> ""]
    ELSE LET st == InitEntry(d, parameterlist[k])
         IN  IF st.raised # "" THEN st ELSE InitLoop(st.parameters, parameterlist, k + 1)

\* Parameters.__init__(parameterlist)
Parameters_init(parameterlist) == InitLoop(OrderedDict, parameterlist, 1)

\* Parameters.set_all_distributions: the setter on every parameter in turn, up
\* to the first one that raises.
RECURSIVE set_all_distributionsLoop(_, _, _)
set_all_distributionsLoop(d, new_distribution, k) ==
    IF k > Len(d.keys)
    THEN [parameters |-> d, raised |-> ""]
    ELSE LET st == distribution(d.val[d.keys[k]], new_distribution)
             set == [d EXCEPT !.val[d.keys[k]] = st.parameter]
         IN  IF st.raised # ""
             THEN [parameters |-> set, raised |-> st.raised]
             ELSE set_all_distributionsLoop(set, new_distribution, k + 1)

\* The loop of Parameters.get, which takes the attribute of every parameter.
RECURSIVE getLoop(_, _, _)
getLoop(vals, attribute, k) ==
    IF k > Len(vals)
    THEN <<>>
    ELSE <<vals[k][attribute]>> \o getLoop(vals, attribute, k + 1)

\* Parameters.get_from_uncertain(attribute): the loop over
\* self.parameters.values().
RECURSIVE get_from_uncertainLoop(_, _, _)
get_from_uncertainLoop(vals, attribute, k) ==
    IF k > Len(vals)
    THEN <<>>
    ELSE (IF vals[k].distribution # None THEN <<vals[k][attribute]>> ELSE <<>>)
         \o get_from_uncertainLoop(vals, attribute, k + 1)

Parameters_get_from_uncertain(d, attribute) == get_from_uncertainLoop(OrderedDict_values(d), attribute, 1)

\* Parameters.set_distribution(parameter, distribution)
Parameters_set_distribution(d, parameter, new_distribution) ==
    IF parameter \notin DOMAIN d.val
    THEN [parameters |-> d, raised |-> "KeyError"]
    ELSE LET st == distribution(d.val[parameter], new_distribution)
         IN  [parameters |-> [d EXCEPT !.val[parameter] = st.parameter], raised |-> st.raised]

\* Parameters.__setitem__(name, parameter)
Parameters_setitem(d, name, parameter) ==
    IF parameter.kind # "Parameter"
    THEN [parameters |-> d, raised |-> "ValueError"]
    ELSE [parameters |-> OrderedDict_setitem(d, name, parameter.items[1]), raised |-> ""]

\* Parameters.__delitem__(name)
Parameters_delitem(d, name) ==
    IF name \notin DOMAIN d.val
    THEN [parameters |-> d, raised |-> "KeyError"]
    ELSE [parameters |-> OrderedDict_delitem(d, name), raised |-> ""]

\* Parameters.__iter__: iter(self.parameters.values()), the Parameter objects.
Parameters_iter(d) ==
    [k \in 1..Len(d.keys) |-> Entry("Parameter", <<OrderedDict_values(d)[k]>>)]

\* Parameters.__getitem__(name): self.parameters[name], the dictionary's keys
\* being strings.
Parameters_getitem(d, name) ==
    IF name.kind = "str" /\ name.items[1] \in DOMAIN d.val
    THEN [result |-> d.val[name.items[1]], raised |-> ""]
    ELSE [result |-> None, raised |-> "KeyError"]

\* The methods Parameters inherits from collections.MutableMapping, each
\* written over __iter__ and __getitem__: keys() is list(self), items() is
\* [(key, self[key]) for key in self], values() is [self[key] for key in self]
\* and `key in self` is whether self[key] raises no KeyError.
Parameters_keys(d) == [result |-> Parameters_iter(d), raised |-> ""]

RECURSIVE Parameters_itemsLoop(_, _, _)
Parameters_itemsLoop(d, it, k) ==
    IF k > Len(it)
    THEN [result |-> <<>>, raised |-> ""]
    ELSE LET got == Parameters_getitem(d, it[k])
             rest == Parameters_itemsLoop(d, it, k + 1)
         IN  IF got.raised # "" THEN [result |-> <<>>, raised |-> got.raised]
             ELSE IF rest.raised # "" THEN rest
             ELSE [result |-> <<<<it[k], got.result>>>> \o rest.result, raised |-> ""]

Parameters_items(d) == Parameters_itemsLoop(d, Parameters_iter(d), 1)

Parameters_values(d) ==
    LET its == Parameters_items(d)
    IN  [result |-> [k \in 1..Len(its.result) |-> its.result[k][2]], raised |-> its.raised]

Parameters_contains(d, key) ==
    [result |-> Parameters_getitem(d, key).raised = "", raised |-> ""]

\* A string as a Python object.
Str(s) == Entry("str", <<s>>)

\* No Parameters object made, no operation done.
NoParameters == parameters = OrderedDict /\ last = [op |-> "", args |-> <<>>, result |-> <<>>, raised |-> ""]

\* -------------------------------------------------------------- RunModel
\* evaluateNodeFunctionList: one task per node, in node order.
evaluateNodeFunctionList(ns) ==
    [i \in 1..Len(ns) |-> [model |-> self.model,
                           supress_model_output |-> self.supress_model_output,
                           adaptive_model |-> self.model.adaptive_model,
                           node |-> ns[i],
                           features |-> self.features]]

Models == [adaptive_model : BOOLEAN, ndim : 0..2, varying : BOOLEAN,
           fault : {"none", "raise", "lack"}]
FeatureSets == {[order |-> <<directComparison>>, ndim |-> 0]}
               \cup [order : {<<directComparison, "f">>, <<"f", directComparison>>},
                     ndim : 0..2]

\* RunModel(model, features, CPUs=1) with every model whose run returns and
\* every feature set, called by an UncertaintyEstimation that tolerates no
\* incomplete result.
SerialRunModels ==
    [model : {m \in Models : m.fault # "raise"}, features : FeatureSets, CPUs : {1},
     supress_model_output : {TRUE}, supress_model_graphics : {TRUE}]

\* RunModel(model, features, CPUs, supress_model_graphics) with an adaptive
\* 1-D model and a 0-D feature, for every pool size and both graphics settings.
PooledRunModels ==
    [model : [adaptive_model : {TRUE}, ndim : {1}, varying : {TRUE},
              fault : {"none", "raise"}],
     features : {[order |-> <<directComparison, "f">>, ndim |-> 0]},
     CPUs : 1..MaxCPUs,
     supress_model_output : {TRUE}, supress_model_graphics : BOOLEAN]

\* RunModel(model, features, CPUs=1) on which run is called several times: the
\* models whose output grows with the node, and a feature after directComparison.
RerunRunModels ==
    {r \in [model : Models, features : FeatureSets, CPUs : {1},
            supress_model_output : {TRUE}, supress_model_graphics : {TRUE}] :
        r.model.varying /\ r.features.order = <<directComparison, "f">>}

\* The caller of run: whether it keeps what run returns, and the stores it
\* has kept. run returns self.data, the one Data object __init__ made: the
\* caller holds a reference to it (ref), noted here with the contents the
\* store had when run returned it (was).
Caller(keeps) == [keeps |-> keeps, stores |-> <<>>]

Keep(caller, ref, contents) ==
    IF caller.keeps
    THEN [caller EXCEPT !.stores = Append(@, [ref |-> ref, was |-> contents])]
    ELSE caller

\* The state RunModel.__init__ leaves, but for the RunModel fields.
Constructed ==
    /\ data = EmptyData
    /\ pc = "idle"
    /\ nodes = <<>>
    /\ tasks = <<>>
    /\ next_task = 1
    /\ running = {}
    /\ cache = <<>>
    /\ solves = <<>>
    /\ vdisplay = "none"
    /\ error = ""

\* RunModel.__init__, the allow_incomplete its caller was built with, and a
\* caller that calls run once.
Init ==
    /\ \/ self \in SerialRunModels /\ allow_incomplete = FALSE
       \/ self \in PooledRunModels /\ allow_incomplete \in BOOLEAN
    /\ calls = 1
    /\ Constructed
    /\ kept = Caller(FALSE)
    /\ NoParameters

\* RunModel.__init__ and a caller that calls run MaxRuns times.
InitRuns ==
    /\ self \in RerunRunModels
    /\ allow_incomplete = FALSE
    /\ calls = MaxRuns
    /\ Constructed
    /\ kept = Caller(FALSE)
    /\ NoParameters

\* run without self.data.resetValues().
runKeepValues(ns) ==
    /\ pc \in {"idle", "done", "failed"}
    /\ calls > 0
    /\ data' = data
    /\ nodes' = ns
    /\ vdisplay' = IF self.supress_model_graphics THEN "running" ELSE "none"
    /\ solves' = <<>>
    /\ tasks' = <<>>
    /\ next_task' = 1
    /\ running' = {}
    /\ cache' = <<>>
    /\ error' = ""
    /\ pc' = "dispatching"
    /\ calls' = calls - 1
    /\ UNCHANGED <<pvars, kept, self, allow_incomplete>>

\* run(nodes) up to the pool's creation: the store is reset, the display
\* started when graphics are suppressed, solves = [] and the pool created.
run(ns) ==
    /\ pc \in {"idle", "done", "failed"}
    /\ calls > 0
    /\ data' = resetValues(data)
    /\ nodes' = ns
    /\ vdisplay' = IF self.supress_model_graphics THEN "running" ELSE "none"
    /\ solves' = <<>>
    /\ tasks' = <<>>
    /\ next_task' = 1
    /\ running' = {}
    /\ cache' = <<>>
    /\ error' = ""
    /\ pc' = "dispatching"
    /\ calls' = calls - 1
    /\ UNCHANGED <<pvars, kept, self, allow_incomplete>>

\* pool.imap(evaluateNodeFunction, self.evaluateNodeFunctionList(nodes.T))
imap ==
    /\ pc = "dispatching"
    /\ tasks' = evaluateNodeFunctionList(nodes)
    /\ pc' = "collecting"
    /\ UNCHANGED <<pvars, kept, self, allow_incomplete, calls, data, nodes, next_task, running, cache, solves, vdisplay, error>>

\* A pool that never hands out the last task of the list.
WorkerTakeButLast ==
    /\ pc = "collecting"
    /\ Cardinality(running) < self.CPUs
    /\ next_task < Len(tasks)
    /\ running' = running \cup {next_task}
    /\ next_task' = next_task + 1
    /\ UNCHANGED <<pvars, kept, self, allow_incomplete, calls, data, pc, nodes, tasks, cache, solves, vdisplay, error>>

\* An idle worker of the pool takes the next task of the list.
WorkerTake ==
    /\ pc = "collecting"
    /\ Cardinality(running) < self.CPUs
    /\ next_task <= Len(tasks)
    /\ running' = running \cup {next_task}
    /\ next_task' = next_task + 1
    /\ UNCHANGED <<pvars, kept, self, allow_incomplete, calls, data, pc, nodes, tasks, cache, solves, vdisplay, error>>

\* A worker whose finished task stays with the pool's running tasks, to be
\* evaluated again.
WorkerDoneKeep(i) ==
    /\ pc = "collecting"
    /\ i \in running
    /\ i \notin DOMAIN cache
    /\ running' = running
    /\ cache' = (i :> evaluateNodeFunction(tasks[i])) @@ cache
    /\ UNCHANGED <<pvars, kept, self, allow_incomplete, calls, data, pc, nodes, tasks, next_task, solves, vdisplay, error>>

\* A worker finishes its task, in any order; the result waits in the iterator.
WorkerDone(i) ==
    /\ pc = "collecting"
    /\ i \in running
    /\ running' = running \ {i}
    /\ cache' = (i :> evaluateNodeFunction(tasks[i])) @@ cache
    /\ UNCHANGED <<pvars, kept, self, allow_incomplete, calls, data, pc, nodes, tasks, next_task, solves, vdisplay, error>>

\* The iterator of pool.imap_unordered: yields a finished result, whatever its index.
imapNextFinished == IF DOMAIN cache = {} THEN Len(solves) + 1 ELSE Min(DOMAIN cache)

\* The index of the result the imap iterator yields next: the one after the
\* results already yielded.
imapNext == Len(solves) + 1

\* The loop over pool.imap_unordered: appends whichever result has finished.
CollectUnordered ==
    /\ pc = "collecting"
    /\ \E i \in DOMAIN cache :
        /\ ~cache[i].raised
        /\ solves' = Append(solves, cache[i])
        /\ cache' = [j \in DOMAIN cache \ {i} |-> cache[j]]
    /\ UNCHANGED <<pvars, kept, self, allow_incomplete, calls, data, pc, nodes, tasks, next_task, running, vdisplay, error>>

\* for result in pool.imap(...): solves.append(result)
Collect ==
    /\ pc = "collecting"
    /\ imapNext \in DOMAIN cache
    /\ ~cache[imapNext].raised
    /\ solves' = Append(solves, cache[imapNext])
    /\ cache' = [i \in DOMAIN cache \ {imapNext} |-> cache[i]]
    /\ UNCHANGED <<pvars, kept, self, allow_incomplete, calls, data, pc, nodes, tasks, next_task, running, vdisplay, error>>

\* The iterator re-raises the exception of a failed task: evaluateNodes and
\* run end with it, past pool.close() and vdisplay.stop().
CollectRaise ==
    /\ pc = "collecting"
    /\ imapNext \in DOMAIN cache
    /\ cache[imapNext].raised
    /\ pc' = "failed"
    /\ error' = "NodeError"
    /\ UNCHANGED <<pvars, kept, self, allow_incomplete, calls, data, nodes, tasks, next_task, running, cache, solves, vdisplay>>

\* The loop is over: pool.close(), vdisplay.stop(), return np.array(solves).
evaluateNodesReturn ==
    /\ pc = "collecting"
    /\ Len(solves) = Len(tasks)
    /\ vdisplay' = IF self.supress_model_graphics THEN "stopped" ELSE vdisplay
    /\ pc' = "aligning"
    /\ UNCHANGED <<pvars, kept, self, allow_incomplete, calls, data, nodes, tasks, next_task, running, cache, solves, error>>

\* self.storeResults(solves); return self.data
runStoreResults ==
    /\ pc = "aligning"
    /\ LET st == storeResults(data, solves, self.model.adaptive_model)
       IN  /\ data' = st.data
           /\ error' = st.error
           /\ pc' = IF st.error = "" THEN "done" ELSE "failed"
           /\ kept' = IF st.error = "" THEN Keep(kept, "self.data", st.data) ELSE kept
    /\ UNCHANGED <<pvars, self, allow_incomplete, calls, nodes, tasks, next_task, running, cache, solves, vdisplay>>

Next ==
    \/ \E ns \in Grids : run(ns)
    \/ imap
    \/ WorkerTake
    \/ \E i \in 1..MaxNodes : WorkerDone(i)
    \/ Collect
    \/ CollectRaise
    \/ evaluateNodesReturn
    \/ runStoreResults

Spec == Init /\ [][Next]_vars

SpecRuns == InitRuns /\ [][Next]_vars

\* A step of a run under way: of the thread that called run (it opens the
\* pool, takes a result the iterator has ready, returns from evaluateNodes,
\* stores) or of the pool (a waiting task goes to an idle worker, a node
\* evaluation returns or raises).
Progress ==
    \/ imap
    \/ WorkerTake
    \/ \E i \in 1..MaxNodes : WorkerDone(i)
    \/ Collect
    \/ CollectRaise
    \/ evaluateNodesReturn
    \/ runStoreResults

\* While there is such a step to take, one is taken.
Fairness == WF_vars(Progress)

\* RunModel(model, features, CPUs) with a model of fixed-length output, 0-D or
\* 2-D, adaptive or not, that returns or raises, and directComparison alone,
\* for every pool size.
FixedRunModels ==
    [model : [adaptive_model : BOOLEAN, ndim : {0, 2}, varying : {FALSE},
              fault : {"none", "raise"}],
     features : {[order |-> <<directComparison>>, ndim |-> 0]},
     CPUs : 1..MaxCPUs,
     supress_model_output : {TRUE}, supress_model_graphics : {TRUE}]

\* RunModel.__init__ with a pool of 1..MaxCPUs workers, called once.
InitPooled ==
    /\ self \in FixedRunModels
    /\ allow_incomplete = FALSE
    /\ calls = 1
    /\ Constructed
    /\ kept = Caller(FALSE)
    /\ NoParameters

SpecFair == InitPooled /\ [][Next]_vars /\ Fairness

\* RunModel.__init__ with a 0-D model that returns or raises, and a caller
\* that calls run MaxRuns times and keeps every store run returns.
InitKept ==
    /\ self \in {r \in FixedRunModels : r.model.ndim = 0 /\ r.CPUs = 1}
    /\ allow_incomplete = FALSE
    /\ calls = MaxRuns
    /\ Constructed
    /\ kept = Caller(TRUE)
    /\ NoParameters

SpecKept == InitKept /\ [][Next]_vars

\* -------------------------------------------------------------- Parameters
\* An operation on the Parameters object, as `last` records it.
Operation(op, args, result, raised) ==
    [op |-> op, args |-> args, result |-> result, raised |-> raised]

\* Parameters(parameterlist) for every parameterlist; no RunModel is run.
InitParameters ==
    /\ \E parameterlist \in ParameterLists :
        LET st == Parameters_init(parameterlist)
        IN  /\ parameters = st.parameters
            /\ last = Operation("__init__", <<parameterlist>>, <<>>, st.raised)
    /\ self = CHOOSE r \in SerialRunModels : TRUE
    /\ allow_incomplete = FALSE
    /\ calls = 0
    /\ Constructed
    /\ kept = Caller(FALSE)

\* Parameters.__init__ returned: there is an object to call.
Made == last.op # "__init__" \/ last.raised = ""

\* parameters[name] = parameter
setitem(name, parameter) ==
    /\ Made
    /\ LET st == Parameters_setitem(parameters, name, parameter)
       IN  /\ parameters' = st.parameters
           /\ last' = Operation("__setitem__", <<name, parameter>>, <<>>, st.raised)
    /\ UNCHANGED rvars

\* del parameters[name]
delitem(name) ==
    /\ Made
    /\ LET st == Parameters_delitem(parameters, name)
       IN  /\ parameters' = st.parameters
           /\ last' = Operation("__delitem__", <<name>>, <<>>, st.raised)
    /\ UNCHANGED rvars

\* parameters.set_distribution(parameter, distribution)
set_distribution(parameter, new_distribution) ==
    /\ Made
    /\ LET st == Parameters_set_distribution(parameters, parameter, new_distribution)
       IN  /\ parameters' = st.parameters
           /\ last' = Operation("set_distribution", <<parameter, new_distribution>>, <<>>,
                                st.raised)
    /\ UNCHANGED rvars

\* parameters.set_all_distributions(distribution)
set_all_distributions(new_distribution) ==
    /\ Made
    /\ LET st == set_all_distributionsLoop(parameters, new_distribution, 1)
       IN  /\ parameters' = st.parameters
           /\ last' = Operation("set_all_distributions", <<new_distribution>>, <<>>,
                                st.raised)
    /\ UNCHANGED rvars

\* parameters.get_from_uncertain(attribute)
get_from_uncertain(attribute) ==
    /\ Made
    /\ last' = Operation("get_from_uncertain", <<attribute>>,
                         Parameters_get_from_uncertain(parameters, attribute), "")
    /\ UNCHANGED <<rvars, parameters>>

\* A query with no argument: list(parameters), parameters.keys(),
\* parameters.values(), parameters.items().
Query(op, st) ==
    /\ Made
    /\ last' = Operation(op, <<>>, st.result, st.raised)
    /\ UNCHANGED <<rvars, parameters>>

iter == Query("__iter__", [result |-> Parameters_iter(parameters), raised |-> ""])
keys == Query("keys", Parameters_keys(parameters))
values == Query("values", Parameters_values(parameters))
items == Query("items", Parameters_items(parameters))

\* name in parameters
contains(name) ==
    /\ Made
    /\ LET st == Parameters_contains(parameters, Str(name))
       IN  last' = Operation("__contains__", <<name>>, st.result, st.raised)
    /\ UNCHANGED <<rvars, parameters>>

NextParameters ==
    \/ \E name \in Names, parameter \in Entries : setitem(name, parameter)
    \/ \E name \in Names : delitem(name)
    \/ \E name \in Names, d \in Distributions : set_distribution(name, d)
    \/ \E d \in Distributions : set_all_distributions(d)
    \/ \E attribute \in Attributes : get_from_uncertain(attribute)
    \/ iter
    \/ keys
    \/ values
    \/ items
    \/ \E name \in Names : contains(name)

SpecParameters == InitParameters /\ [][NextParameters]_vars

TypeOK ==
    /\ pc \in {"idle", "dispatching", "collecting", "aligning", "done", "failed"}
    /\ vdisplay \in {"none", "running", "stopped"}
    /\ Len(solves) <= Len(tasks)

\* ------------------------------------------------------------------ claims
Range(seq) == {seq[k] : k \in DOMAIN seq}
adaptive == self.model.adaptive_model

\* What one worker invocation returns for node i of grid ns.
Results(ns) == [i \in 1..Len(ns) |-> evaluateNodeFunction(evaluateNodeFunctionList(ns)[i])]

\* storeResults has run in the current call of run.
StoreRan == pc \in {"done", "failed"} /\ error # "NodeError"

\* Some two nodes of the grid differ.
DistinctNodes == \E i, j \in DOMAIN nodes : nodes[i] # nodes[j]

\* C1: whatever the order in which the workers finish, the i-th collected
\* result is the one produced from grid node i.
C1_SubmissionOrder ==
    \A i \in 1..Len(solves) :
        /\ tasks[i].node = nodes[i]
        /\ solves[i] = evaluateNodeFunction(tasks[i])

\* A later task has finished while the next one to yield is still being
\* evaluated, after results were already collected.
C1_Witness ==
    /\ Len(solves) >= 1
    /\ imapNext \in running
    /\ (imapNext + 1) \in DOMAIN cache
    /\ nodes[imapNext] # nodes[imapNext + 1]

\* The store a pool of one worker leaves for grid ns: the nodes evaluated one
\* after the other, in grid order.
SerialRun(ns) == storeResults(EmptyData, Results(ns), adaptive)

\* C2: a run that returns leaves the store the same grid gives with a pool of
\* one worker, whatever the pool size: same features, time bases and responses.
C2_PoolSizeIndependent == pc = "done" => data = SerialRun(nodes).data

C2_Witness ==
    /\ pc = "done"
    /\ self.CPUs > 1
    /\ DistinctNodes
    /\ DOMAIN data.U # {}

\* The values of feature f have different shapes at two nodes of the run.
Ragged(f) ==
    \E i, j \in 1..Len(solves) :
        /\ f \in DOMAIN solves[i].val
        /\ f \in DOMAIN solves[j].val
        /\ solves[i].val[f][2].shape # solves[j].val[f][2].shape

\* C3: with a non-adaptive model, a 1-D or 2-D feature whose shape differs
\* between nodes makes run raise ValueError, and its values are not stored.
C3_ShapeMismatchRaises ==
    \A f \in Range(data.features_1d \o data.features_2d) :
        (StoreRan /\ ~adaptive /\ Ragged(f)) =>
            /\ pc = "failed"
            /\ error = "ValueError"
            /\ f \notin DOMAIN data.U

\* t[f] is the native time basis of a node whose native basis is the longest.
LongestBasis(f) ==
    \E i \in 1..Len(solves) :
        /\ data.t[f] = solves[i].val[f][1]
        /\ \A j \in 1..Len(solves) :
              solves[j].val[f][1].shape[1] <= solves[i].val[f][1].shape[1]

\* U[f] has one series per node, each of the length of t[f].
SameLengthAsBasis(f) ==
    /\ Len(data.U[f].items) = Len(nodes)
    /\ \A i \in 1..Len(nodes) : data.U[f].items[i].shape = data.t[f].shape

\* C4 as claimed: after a successful run of an adaptive model, every 1-D
\* feature is stored on the longest native basis, all series of its length.
C4_EveryFeatureInterpolated ==
    (pc = "done" /\ adaptive) =>
        \A f \in Range(data.features_1d) : LongestBasis(f) /\ SameLengthAsBasis(f)

\* C4 amended: after a successful run of an adaptive model whose
\* directComparison is 1-D, t["directComparison"] is the native basis of a
\* longest node and U["directComparison"] holds, in node order, every node's
\* interpolant evaluated on it.
C4_DirectComparisonInterpolated ==
    (pc = "done" /\ adaptive /\ directComparison \in Range(data.features_1d)) =>
        /\ LongestBasis(directComparison)
        /\ SameLengthAsBasis(directComparison)
        /\ \A i \in 1..Len(nodes) :
              data.U[directComparison].items[i] =
                  Evaluate(Results(nodes)[i].val[directComparison][3],
                           data.t[directComparison])

\* The longest native basis is not the first node's.
C4_Witness ==
    /\ pc = "done"
    /\ adaptive
    /\ directComparison \in Range(data.features_1d)
    /\ data.t[directComparison] # solves[1].val[directComparison][1]

\* C5 as claimed: with an adaptive model, every 2-D feature makes run raise
\* NotImplementedError, and nothing is stored for it.
C5_Every2dFeatureRejected ==
    \A f \in Range(data.features_2d) :
        (StoreRan /\ adaptive) =>
            /\ error = "NotImplementedError"
            /\ f \notin DOMAIN data.U
            /\ f \notin DOMAIN data.t

\* A 2-D feature stored before directComparison is missing from a node's result.
EarlierFeatureLacking ==
    \E k \in DOMAIN data.features_2d :
        /\ \E m \in DOMAIN data.features_2d :
              k < m /\ data.features_2d[m] = directComparison
        /\ Lacking(solves, data.features_2d[k]) # {}

\* C5 amended: with an adaptive model whose directComparison is 2-D, run
\* fails, with NotImplementedError unless a node lacks a 2-D feature stored
\* before it (KeyError); no time basis or response of directComparison is
\* stored and nothing has been interpolated or converted.
C5_DirectComparison2dRejected ==
    (StoreRan /\ adaptive /\ directComparison \in Range(data.features_2d)) =>
        /\ pc = "failed"
        /\ \/ error = "NotImplementedError"
           \/ error = "KeyError" /\ EarlierFeatureLacking
        /\ directComparison \notin DOMAIN data.U
        /\ directComparison \notin DOMAIN data.t
        /\ \A f \in DOMAIN data.U : ~data.U[f].array

C5_Witness ==
    /\ pc = "failed"
    /\ error = "NotImplementedError"
    /\ adaptive
    /\ directComparison \in Range(data.features_2d)
    /\ Len(nodes) > 1

\* No node evaluation of the run failed: none raised, and every node returned
\* every feature.
NoNodeFailed ==
    \A i \in 1..Len(nodes) :
        /\ ~Results(nodes)[i].raised
        /\ DOMAIN Results(nodes)[i].val = Range(self.features.order)

\* The response of node i for feature f: its interpolant on the stored basis
\* for the adaptive 1-D directComparison, its values otherwise.
Response(f, i) ==
    IF adaptive /\ f = directComparison /\ f \in Range(data.features_1d)
    THEN Evaluate(Results(nodes)[i].val[f][3], data.t[f])
    ELSE Results(nodes)[i].val[f][2]

\* C6: after storeResults on a grid of N nodes none of which failed, U[f] of
\* every stored feature f has N entries, entry i the response of node i; and
\* a run that returns has stored every feature it classified.
C6_OneEntryPerNode ==
    (StoreRan /\ NoNodeFailed) =>
        /\ \A f \in DOMAIN data.U :
              /\ Len(data.U[f].items) = Len(nodes)
              /\ \A i \in 1..Len(nodes) : data.U[f].items[i] = Response(f, i)
        /\ pc = "done" =>
              DOMAIN data.U =
                  Range(data.features_0d \o data.features_1d \o data.features_2d)

C6_Witness ==
    /\ pc = "done"
    /\ NoNodeFailed
    /\ DistinctNodes
    /\ Cardinality(DOMAIN data.U) = 2

\* C7: when a node evaluation raises, a run that tolerates incomplete results
\* completes with the remaining nodes if one succeeded; a run that does not
\* fails.
C7_TolerantRunCompletes ==
    (pc \in {"done", "failed"} /\ \E i \in 1..Len(nodes) : Results(nodes)[i].raised) =>
        IF allow_incomplete /\ \E i \in 1..Len(nodes) : ~Results(nodes)[i].raised
        THEN pc = "done"
        ELSE pc = "failed"

\* C8: when storeResults fails, the store holds no time basis and no response.
C8_AllOrNothing ==
    (StoreRan /\ pc = "failed") => data.U = <<>> /\ data.t = <<>>

\* C9: the store is empty from the start of every run until storeResults, and
\* what a run leaves in it is what storeResults makes of that run's results
\* in an empty store, whatever the earlier runs left.
C9_StoreOfThisRun ==
    /\ pc \in {"dispatching", "collecting", "aligning"} => data = EmptyData
    /\ (pc = "failed" /\ error = "NodeError") => data = EmptyData
    /\ StoreRan => data = storeResults(EmptyData, solves, adaptive).data

\* A second run has returned a non-empty store.
C9_Witness ==
    /\ calls <= MaxRuns - 2
    /\ pc = "done"
    /\ DOMAIN data.U # {}

\* C10: with graphics suppressed the display runs during evaluateNodes and is
\* stopped once evaluateNodes has exited, on every path; without, it is never
\* started.
C10_DisplayStopped ==
    IF self.supress_model_graphics
    THEN /\ pc \in {"dispatching", "collecting"} => vdisplay = "running"
         /\ pc \in {"aligning", "done", "failed"} => vdisplay = "stopped"
    ELSE vdisplay = "none"

\* C11: after a run that returns, every 0-D feature has no time basis and
\* holds one scalar per node, the i-th the value node i produced, uninterpolated,
\* whether the model is adaptive or not.
C11_ZeroDStoredRaw ==
    pc = "done" =>
        \A f \in Range(data.features_0d) :
            /\ data.t[f] = None
            /\ Len(data.U[f].items) = Len(nodes)
            /\ \A i \in 1..Len(nodes) :
                  /\ data.U[f].items[i] = Results(nodes)[i].val[f][2]
                  /\ data.U[f].items[i].shape = <<>>

C11_Witness ==
    /\ pc = "done"
    /\ adaptive
    /\ directComparison \in Range(data.features_0d)
    /\ Len(nodes) = MaxNodes
    /\ DistinctNodes

\* C12: when storeResults aborts a run with its shape-mismatch ValueError or
\* its NotImplementedError for a 2-D adaptive feature, the error raised carries
\* the name of the offending feature or the index of the offending node.
C12_ErrorNamesOffender ==
    (pc = "failed" /\ error \in {"ValueError", "NotImplementedError"}) =>
        \E x \in Range(ErrorMessage(error).values) :
            \/ x \in Range(self.features.order)
            \/ x \in DOMAIN nodes

\* The positions, in the set's order, of the parameters that have a distribution.
Uncertain == {k \in 1..Len(parameters.keys) :
                 parameters.val[parameters.keys[k]].distribution # None}

\* C13: whatever operations came before, get_from_uncertain(attribute) returns
\* one entry per parameter whose distribution is not None, none for the
\* others, each the parameter's attribute, in the order of the set.
C13_UncertainInOrder ==
    last.op = "get_from_uncertain" =>
        /\ Len(last.result) = Cardinality(Uncertain)
        /\ \A k \in Uncertain :
              last.result[Cardinality({j \in Uncertain : j <= k})] =
                  parameters.val[parameters.keys[k]][last.args[1]]

C13_Witness ==
    /\ last.op = "get_from_uncertain"
    /\ last.args = <<"name">>
    /\ parameters.keys = <<"b", "a">>
    /\ parameters.val["b"].distribution = Dist("2")
    /\ parameters.val["a"].distribution = None
    /\ last.result = <<"b">>

\* A [name, value, distribution] entry from which a Parameter can be made, and
\* the Parameter object made from it.
WellFormed(i) ==
    /\ i.kind = "list"
    /\ Len(i.items) = 3
    /\ Parameter(i.items[1], i.items[2], i.items[3]).raised = ""

AsObject(i) == Entry("Parameter", <<Parameter(i.items[1], i.items[2], i.items[3]).parameter>>)

\* C14: the set built from a list of [name, value, distribution] entries and
\* the set built from the Parameter objects made of the same entries, in the
\* same order, give the same get_from_uncertain output for every attribute,
\* repeated names included.
C14_ListsAsObjects ==
    (last.op = "__init__" /\ \A k \in DOMAIN last.args[1] : WellFormed(last.args[1][k])) =>
        LET objects == [k \in DOMAIN last.args[1] |-> AsObject(last.args[1][k])]
            built == Parameters_init(objects)
        IN  /\ last.raised = ""
            /\ built.raised = ""
            /\ \A attribute \in Attributes :
                  Parameters_get_from_uncertain(parameters, attribute) =
                      Parameters_get_from_uncertain(built.parameters, attribute)

C14_Witness ==
    /\ last.op = "__init__"
    /\ last.args[1] = <<Entry("list", <<"a", "1", None>>),
                        Entry("list", <<"a", "2", Function("Dist")>>)>>
    /\ Parameters_get_from_uncertain(parameters, "distribution") = <<Dist("2")>>

\* The string s, as a Python object x.
IsStr(x, s) == x.kind = "str" /\ x.items = <<s>>

\* C15: the Parameters object is a dictionary keyed by parameter name:
\* iterating it and keys() yield the names in order, items() the (name,
\* Parameter) pairs, values() the Parameter objects, `name in parameters` is
\* true exactly for the names held, and none of them raises.
C15_StandardMapping ==
    /\ last.op \in {"__iter__", "keys", "values", "items", "__contains__"} =>
          last.raised = ""
    /\ last.op \in {"__iter__", "keys"} =>
          /\ Len(last.result) = Len(parameters.keys)
          /\ \A k \in 1..Len(parameters.keys) : IsStr(last.result[k], parameters.keys[k])
    /\ (last.op = "items" /\ last.raised = "") =>
          /\ Len(last.result) = Len(parameters.keys)
          /\ \A k \in 1..Len(parameters.keys) :
                /\ IsStr(last.result[k][1], parameters.keys[k])
                /\ last.result[k][2] = parameters.val[parameters.keys[k]]
    /\ (last.op = "values" /\ last.raised = "") =>
          last.result = OrderedDict_values(parameters)
    /\ last.op = "__contains__" =>
          last.result = (last.args[1] \in Range(parameters.keys))

\* C16: no two parameters held by the set have the same name.
C16_UniqueNames ==
    \A j, k \in 1..Len(parameters.keys) :
        j # k => parameters.val[parameters.keys[j]].name # parameters.val[parameters.keys[k]].name

\* A distribution a parameter of the given value may be given: None, a
\* Chaospy distribution or a function that returns one.
Acceptable(d, value) ==
    \/ d = None
    \/ d.kind = "Dist"
    \/ d.kind = "function" /\ Call(d, value).kind = "Dist"

\* An entry that is neither a Parameter object nor a [name, value, distribution]
\* list with such a distribution.
Malformed(i) ==
    /\ i.kind # "Parameter"
    /\ ~(i.kind = "list" /\ Len(i.items) = 3 /\ Acceptable(i.items[3], i.items[2]))

\* C17: Parameters(parameterlist) raises when an entry of the list is malformed
\* or has a distribution that is neither None, a Chaospy distribution nor a
\* function returning one: no set is made from such a list.
C17_MalformedEntryRaises ==
    (last.op = "__init__" /\ \E k \in DOMAIN last.args[1] : Malformed(last.args[1][k])) =>
        last.raised # ""

\* C20: after every assignment of a distribution, those that raise TypeError
\* included, the distribution of every parameter is None or a Chaospy
\* distribution, and an assignment that raises leaves the parameter as it was.
C20_DistributionValid ==
    [][last'.op \in {"set_distribution", "set_all_distributions"} =>
          /\ \A name \in DOMAIN parameters'.val :
                parameters'.val[name].distribution.kind \in {"None", "Dist"}
          /\ (last'.op = "set_distribution" /\ last'.raised = "TypeError") =>
                parameters' = parameters]_vars

\* How many of the conditions in the sequence hold.
RECURSIVE Count(_)
Count(conditions) ==
    IF conditions = <<>> THEN 0
    ELSE (IF Head(conditions) THEN 1 ELSE 0) + Count(Tail(conditions))

\* C18: the task list has one task per node, task i carrying node i and the
\* run's model, features and output suppression; every task is at any time
\* in exactly one place (not yet dispatched, with a worker, finished and
\* waiting, or collected), and when the loop over the results is over every
\* node has been evaluated and collected.
C18_OneTaskPerNode ==
    pc \in {"collecting", "aligning", "done", "failed"} =>
        /\ Len(tasks) = Len(nodes)
        /\ \A i \in 1..Len(nodes) :
              /\ tasks[i].node = nodes[i]
              /\ tasks[i].model = self.model
              /\ tasks[i].features = self.features
              /\ tasks[i].supress_model_output = self.supress_model_output
              /\ tasks[i].adaptive_model = self.model.adaptive_model
              /\ Count(<<i >= next_task, i \in running, i \in DOMAIN cache,
                         i <= Len(solves)>>) = 1
        /\ (pc = "aligning" \/ StoreRan) =>
              /\ Len(solves) = Len(nodes)
              /\ running = {}
              /\ DOMAIN cache = {}

C18_Witness ==
    /\ pc = "collecting"
    /\ Len(nodes) = 3
    /\ DistinctNodes
    /\ Len(solves) = 1
    /\ running = {2}
    /\ DOMAIN cache = {3}

\* The steps of a run from one phase to the next.
Phases ==
    {<<"idle", "dispatching">>, <<"done", "dispatching">>, <<"failed", "dispatching">>,
     <<"dispatching", "collecting">>, <<"collecting", "aligning">>,
     <<"collecting", "failed">>, <<"aligning", "done">>, <<"aligning", "failed">>}

\* C19: when every node evaluation begun returns or raises, a run that has
\* started ends, done or failed; it goes from dispatching to collecting to
\* aligning in this order, and is done only with all N results collected.
C19_RunTerminates ==
    /\ (pc = "dispatching") ~> (pc \in {"done", "failed"})
    /\ [][pc' # pc => <<pc, pc'>> \in Phases]_vars
    /\ [](pc = "done" => Len(solves) = Len(nodes))

C19_Witness ==
    /\ pc = "done"
    /\ self.CPUs = MaxCPUs
    /\ Len(solves) = MaxNodes
    /\ Len(nodes) = MaxNodes

\* The contents of the store a reference points to: self.data is the one Data
\* object of the RunModel.
Deref(ref) == data

\* C21: every store a completed run returned to the caller still holds the
\* features, time bases and responses it held when it was returned, whatever
\* runs, successful or failed, were made on the RunModel since.
C21_ReturnedStoreKept ==
    \A k \in DOMAIN kept.stores :
        Deref(kept.stores[k].ref) = kept.stores[k].was

\* C22: after a run that returns, U[feature] of every stored feature is an
\* array, whatever the feature's class and place in the loops; and
\* storeResults does not fail for want of a feature to convert when a class
\* has no features.
C22_EveryFeatureConverted ==
    /\ pc = "done" => \A f \in DOMAIN data.U : data.U[f].array
    /\ StoreRan => error # "NameError"

====
